---- MODULE Spec2Model ----
(***************************************************************************)
(* A model of is-it-on-hfqpdb.py: the coupon images advertised on the      *)
(* retailer's site are compared with the images of the coupon database,    *)
(* and the ones the database lacks are saved for upload.                   *)
(*                                                                         *)
(* Two specifications:                                                     *)
(*   PairSpec  one (candidate, reference) pair of fetched images and the   *)
(*             duplicate test of process_coupon applied to it, both ways;  *)
(*   Spec      a whole run of the script: the download thread pool, the    *)
(*             gathering of the database, the polling loop, the process    *)
(*             pool, the collection of results and the summary;            *)
(*   FairSpec  the same run under the fairness of the schedulers.          *)
(***************************************************************************)
EXTENDS Integers, Sequences, FiniteSets, TLC

VARIABLES
    pc,               \* where the main thread is
    served,           \* what the image servers answer a download with
    db_page,          \* image links of the database page still to be read
    hf_page,          \* image links of the site's pages still to be read
    hfqpdb_requests,  \* line 21: futures of the database downloads
    hf_requests,      \* line 22: futures of the site downloads (the pending list)
    failure_urls,     \* line 20: URLs that failed to download
    upload,           \* the files under SAVE_DIR
    hfqpdb_coupons,   \* line 120: the reference set
    gather_i,         \* position of the loop of line 121
    hf_coupon_count,  \* line 126
    process_counter,  \* line 128
    processes,        \* line 129: futures of the process_coupon tasks
    similar_calls,    \* history: argument pairs coupons_are_similar was called with
    collect_i,        \* position of the loop of line 144
    not_found,        \* line 143
    summary,          \* what line 162 prints
    pair,             \* PairSpec: the pair of fetched images
    verdicts          \* PairSpec: the duplicate test on the pair, both ways

vars == <<pc, served, db_page, hf_page, hfqpdb_requests, hf_requests, failure_urls,
          upload, hfqpdb_coupons, gather_i, hf_coupon_count, process_counter,
          processes, similar_calls, collect_i, not_found, summary, pair, verdicts>>

(***************************************************************************)
(* Bounds of the model.                                                    *)
(***************************************************************************)
\* Grey levels of a pixel are 0..MaxPix.
MaxPix == 1
\* Python's hash() of a bytes object, folded to 0..HashMod-1 so that
\* different buffers can collide.
HashMod == 5
\* Most image links on the database page, and on the site's pages.
MaxDB == 2
MaxHF == 2

\* Pixel dimensions (height, width) of the images considered.
Shapes == {<<1, 1>>, <<1, 2>>, <<2, 1>>, <<2, 2>>}

(***************************************************************************)
(* SIMILAR_THRESHOLD = 0.9 as the fraction ThresholdNum / ThresholdDen.    *)
(***************************************************************************)
ThresholdNum == 9
ThresholdDen == 10

(***************************************************************************)
(* Python's None, for the three places of the result tuple and for the     *)
(* return value of process_coupon.  Hashes and names are naturals, byte    *)
(* buffers are sequences of naturals.                                      *)
(***************************************************************************)
NoneHash == 0 - 1
NoneBytes == <<0 - 1>>
NoneName == 0 - 1

\* Sum of i * s[i]: a checksum that depends on the order of the bytes.
RECURSIVE WeightedSum(_)
WeightedSum(s) == IF s = <<>> THEN 0 ELSE Len(s) * s[Len(s)] + WeightedSum(SubSeq(s, 1, Len(s) - 1))

(***************************************************************************)
(* Encoded images.  A buffer is a sequence of bytes: height, width, the    *)
(* pixels row by row, then bytes the decoder ignores (metadata), so that   *)
(* different buffers can hold the same picture.                            *)
(***************************************************************************)
Encode(h, w, px, tail) == <<h, w>> \o px \o tail

\* What cv2.imdecode gives for a buffer it cannot decode.
NoImage == [h |-> 0, w |-> 0, px |-> <<>>]

\* cv2.imdecode (lines 55-56) followed by cv2.cvtColor (lines 58-59), on a
\* buffer that decodes: the grey picture.
Decode(buf) ==
    IF Len(buf) < 2 THEN NoImage
    ELSE IF buf[1] < 1 \/ buf[2] < 1 \/ Len(buf) < 2 + buf[1] * buf[2] THEN NoImage
    ELSE [h |-> buf[1], w |-> buf[2], px |-> SubSeq(buf, 3, 2 + buf[1] * buf[2])]

Pix(img, r, c) == img.px[(r - 1) * img.w + c]

RECURSIVE SumOver(_, _)
SumOver(f, S) ==
    IF S = {} THEN 0
    ELSE LET x == CHOOSE y \in S : TRUE IN f[x] + SumOver(f, S \ {x})

(***************************************************************************)
(* cv2.matchTemplate(image, templ, TM_CCOEFF_NORMED).                      *)
(* Fits: the template is no larger than the image in either axis;          *)
(* otherwise the call raises cv2.error (lines 42 and 49).                  *)
(* The coefficient at a position is num / sqrt(dd) with                    *)
(*   num = n*Sum(T*I) - Sum(T)*Sum(I),                                     *)
(*   dd  = (n*Sum(T*T) - Sum(T)^2) * (n*Sum(I*I) - Sum(I)^2),              *)
(* n the number of template pixels, I the window of the image under the    *)
(* template; a zero denominator gives the coefficient 0.                   *)
(***************************************************************************)
Fits(templ, image) == templ.h <= image.h /\ templ.w <= image.w

Coefficient(image, templ, y, x) ==
    LET Idx == (1..templ.h) \X (1..templ.w)
        n   == templ.h * templ.w
        T   == [p \in Idx |-> Pix(templ, p[1], p[2])]
        I   == [p \in Idx |-> Pix(image, y + p[1], x + p[2])]
        ST  == SumOver(T, Idx)
        SI  == SumOver(I, Idx)
        STI == SumOver([p \in Idx |-> T[p] * I[p]], Idx)
        STT == SumOver([p \in Idx |-> T[p] * T[p]], Idx)
        SII == SumOver([p \in Idx |-> I[p] * I[p]], Idx)
    IN  [num |-> n * STI - ST * SI,
         dd  |-> (n * STT - ST * ST) * (n * SII - SI * SI)]

\* The correlation surface: one coefficient per position of the template.
matchTemplate(image, templ) ==
    [p \in (0..(image.h - templ.h)) \X (0..(image.w - templ.w)) |->
        Coefficient(image, templ, p[1], p[2])]

\* res >= SIMILAR_THRESHOLD for one coefficient (line 46).
AtLeastThreshold(c) ==
    /\ c.dd > 0
    /\ c.num >= 0
    /\ ThresholdDen * ThresholdDen * c.num * c.num >= ThresholdNum * ThresholdNum * c.dd

\* template_cmp (lines 40-50): "True", "False", or "None" when matchTemplate
\* raises cv2.error.
AnyAtLeastThreshold(res) == \E p \in DOMAIN res : AtLeastThreshold(res[p])

\* Mutant of template_cmp: cv2.error is answered with False instead of None.
template_cmp_ErrorIsFalse(image, template_image) ==
    IF ~Fits(template_image, image) THEN "False"
    ELSE IF AnyAtLeastThreshold(matchTemplate(image, template_image)) THEN "True"
    ELSE "False"

template_cmp(image, template_image) ==
    IF ~Fits(template_image, image) THEN "None"
    ELSE IF AnyAtLeastThreshold(matchTemplate(image, template_image)) THEN "True"
    ELSE "False"

(***************************************************************************)
(* coupons_are_similar (lines 39-67).  The result records the verdict      *)
(* ("True", "False", or "cv2.error" when the call raises) and the          *)
(* template_cmp calls made, in order.                                      *)
(* A buffer that does not decode makes imdecode return None, and cvtColor  *)
(* raises cv2.error on it (lines 58-59), outside any try.                  *)
(***************************************************************************)
\* Lines 61-67 on the two grey pictures: are_similar after the first call,
\* and after the second one when the first gave None.
\* Mutant of Orientations: the second orientation is never tried.
Orientations_NoRetry(first, second, coupon_a_gray, coupon_b_gray) ==
    [verdict |-> IF first # "None" THEN first ELSE "False",
     attempts |-> <<[image |-> coupon_a_gray, template |-> coupon_b_gray]>>]

Orientations(first, second, coupon_a_gray, coupon_b_gray) ==
    IF first # "None"
    THEN [verdict |-> first,
          attempts |-> <<[image |-> coupon_a_gray, template |-> coupon_b_gray]>>]
    ELSE [verdict |-> IF second # "None" THEN second ELSE "False",
          attempts |-> <<[image |-> coupon_a_gray, template |-> coupon_b_gray],
                         [image |-> coupon_b_gray, template |-> coupon_a_gray]>>]

SimilarGray(coupon_a_gray, coupon_b_gray) ==
    IF coupon_a_gray = NoImage \/ coupon_b_gray = NoImage
    THEN [verdict |-> "cv2.error", attempts |-> <<>>]
    ELSE Orientations(template_cmp(coupon_a_gray, coupon_b_gray),
                      template_cmp(coupon_b_gray, coupon_a_gray),
                      coupon_a_gray, coupon_b_gray)

coupons_are_similar(coupon_a, coupon_b) == SimilarGray(Decode(coupon_a), Decode(coupon_b))

(***************************************************************************)
(* dl_and_hash_coupon (lines 25-36).  A URL is the sequence of its path    *)
(* components; response is the bytes the server sends, or NoneBytes when   *)
(* urlopen raises URLError / InvalidURL.                                   *)
(***************************************************************************)
ImageName(url) == url[Len(url)]

Hash(image_bytes) == WeightedSum(image_bytes) % HashMod

dl_and_hash_coupon(url, response) ==
    IF response # NoneBytes
    THEN [image |-> response, hash |-> Hash(response), name |-> ImageName(url)]
    ELSE [image |-> NoneBytes, hash |-> NoneHash, name |-> ImageName(url)]

(***************************************************************************)
(* The duplicate test of line 77 on one (candidate, reference) pair:       *)
(*   hf_image_hash == db_image_hash or coupons_are_similar(db_image,       *)
(*   hf_image).  called: the coupons_are_similar calls made (none when     *)
(* the hashes are equal).                                                  *)
(***************************************************************************)
Compared(db_image, hf_image, similar) ==
    [verdict |-> similar.verdict,
     called |-> <<[a |-> db_image, b |-> hf_image]>>,
     attempts |-> similar.attempts]

\* Mutant of is_duplicate: the operands of "or" are swapped, so the pictures
\* are compared before the hashes.
SimilarOrEqualHash(hf_coupon, db_coupon, d) ==
    IF d.verdict = "False" /\ hf_coupon.hash = db_coupon.hash
    THEN [d EXCEPT !.verdict = "True"]
    ELSE d

is_duplicate_SimilarFirst(hf_coupon, db_coupon) ==
    SimilarOrEqualHash(hf_coupon, db_coupon,
                       Compared(db_coupon.image, hf_coupon.image,
                                coupons_are_similar(db_coupon.image, hf_coupon.image)))

is_duplicate(hf_coupon, db_coupon) ==
    IF hf_coupon.hash = db_coupon.hash
    THEN [verdict |-> "True", called |-> <<>>, attempts |-> <<>>]
    ELSE Compared(db_coupon.image, hf_coupon.image,
                  coupons_are_similar(db_coupon.image, hf_coupon.image))

(***************************************************************************)
(* PairSpec: the duplicate test on every pair of bounded buffers.          *)
(***************************************************************************)
Tails == {<<>>, <<1>>}

Pictures ==
    UNION {{Encode(s[1], s[2], px, t) : px \in [1..(s[1] * s[2]) -> 0..MaxPix], t \in Tails}
           : s \in Shapes}

\* Buffers that do not decode: empty, a zero dimension, a truncated picture.
Garbage == {<<>>, <<0, 1, 1>>, <<2, 2, 1>>}

Buffers == Pictures \cup Garbage

Idle == [cand |-> NoneBytes, ref |-> NoneBytes]

URL_A == <<"hf", 1>>
URL_B == <<"hfqpdb", 2>>

ProgramIdle ==
    /\ pc = "off"
    /\ served = {}
    /\ db_page = <<>> /\ hf_page = <<>>
    /\ hfqpdb_requests = <<>> /\ hf_requests = <<>>
    /\ failure_urls = <<>> /\ upload = {}
    /\ hfqpdb_coupons = <<>> /\ gather_i = 0
    /\ hf_coupon_count = 0 /\ process_counter = 0
    /\ processes = <<>> /\ similar_calls = {}
    /\ collect_i = 0 /\ not_found = <<>> /\ summary = <<>>

ProgramVars == <<pc, served, db_page, hf_page, hfqpdb_requests, hf_requests, failure_urls,
                 upload, hfqpdb_coupons, gather_i, hf_coupon_count, process_counter,
                 processes, similar_calls, collect_i, not_found, summary>>

PairInit ==
    /\ ProgramIdle
    /\ \E a \in Buffers, b \in Buffers : pair = [cand |-> a, ref |-> b]
    /\ verdicts = <<>>

BothWays(c, r) ==
    [cand |-> c, ref |-> r, cr |-> is_duplicate(c, r), rc |-> is_duplicate(r, c)]

\* Both images are fetched, and the test of line 77 is applied to the pair
\* with each of the two in the candidate's place.
Compare ==
    /\ verdicts = <<>>
    /\ verdicts' = <<BothWays(dl_and_hash_coupon(URL_A, pair.cand),
                              dl_and_hash_coupon(URL_B, pair.ref))>>
    /\ UNCHANGED <<pair, ProgramVars>>

PairNext == Compare

PairSpec == PairInit /\ [][PairNext]_vars

(***************************************************************************)
(* process_coupon (lines 70-86).                                           *)
(* Scan: the loop of lines 76-79 from the k-th reference image on; save    *)
(* is the flag of line 75, raised tells that coupons_are_similar raised,   *)
(* calls lists the coupons_are_similar calls made.                         *)
(***************************************************************************)
RECURSIVE Scan(_, _, _)
Prepend(called, rest) == [rest EXCEPT !.calls = called \o @]

\* Mutant of ScanStep: only equal hashes end the loop.
ScanStep_HashOnly(hf_coupon, database, k, d) ==
    IF d.verdict = "cv2.error"
    THEN [save |-> TRUE, raised |-> TRUE, calls |-> d.called]
    ELSE IF d.verdict = "True" /\ d.called = <<>>
    THEN [save |-> FALSE, raised |-> FALSE, calls |-> d.called]
    ELSE Prepend(d.called, Scan(hf_coupon, database, k + 1))

\* One iteration of the loop, d the outcome of line 77.
ScanStep(hf_coupon, database, k, d) ==
    IF d.verdict = "cv2.error"
    THEN [save |-> TRUE, raised |-> TRUE, calls |-> d.called]
    ELSE IF d.verdict = "True"
    THEN [save |-> FALSE, raised |-> FALSE, calls |-> d.called]
    ELSE Prepend(d.called, Scan(hf_coupon, database, k + 1))

\* Mutant of Scan: save starts as False.
Scan_SaveStartsFalse(hf_coupon, database, k) ==
    IF k > Len(database)
    THEN [save |-> FALSE, raised |-> FALSE, calls |-> <<>>]
    ELSE ScanStep(hf_coupon, database, k, is_duplicate(hf_coupon, database[k]))

Scan(hf_coupon, database, k) ==
    IF k > Len(database)
    THEN [save |-> TRUE, raised |-> FALSE, calls |-> <<>>]
    ELSE ScanStep(hf_coupon, database, k, is_duplicate(hf_coupon, database[k]))

\* Lines 80-86, s the outcome of the loop.  ret: the returned not_found
\* (a name or None); written: the file saved.
SaveIfMissing(hf_coupon, s) ==
    IF s.raised
    THEN [ret |-> NoneName, raised |-> TRUE, written |-> {}, calls |-> s.calls]
    ELSE IF s.save
    THEN [ret |-> hf_coupon.name, raised |-> FALSE,
          written |-> {[name |-> hf_coupon.name, data |-> hf_coupon.image]},
          calls |-> s.calls]
    ELSE [ret |-> NoneName, raised |-> FALSE, written |-> {}, calls |-> s.calls]

process_coupon(hf_coupon, database) ==
    IF hf_coupon.hash = NoneHash
    THEN [ret |-> NoneName, raised |-> FALSE, written |-> {}, calls |-> <<>>]
    ELSE SaveIfMissing(hf_coupon, Scan(hf_coupon, database, 1))

(***************************************************************************)
(* Spec: a run of the script.                                              *)
(***************************************************************************)
\* What the image servers may send: three pictures and a buffer that does
\* not decode; NoneBytes stands for a download that fails.
ImgX     == Encode(2, 2, <<0, 1, 0, 0>>, <<>>)
ImgXCrop == Encode(1, 2, <<0, 1>>, <<>>)
ImgY     == Encode(2, 1, <<0, 1>>, <<>>)
ImgBad   == <<0, 1, 1>>
Responses == {ImgX, ImgXCrop, ImgY, ImgBad, NoneBytes}

\* A file left in SAVE_DIR by an earlier run.
StaleFile == [name |-> 0, data |-> ImgY]

NoResult == [image |-> NoneBytes, hash |-> NoneHash, name |-> NoneName]
Future(url) == [url |-> url, done |-> FALSE, result |-> NoResult]

\* The state before the pages are read, with servers that answer with the
\* responses given.
Start(responses) ==
    /\ pc = "scrape"
    /\ served = responses
    /\ \E n \in 0..MaxDB : db_page = [i \in 1..n |-> <<"hfqpdb.com", "coupons", i>>]
    /\ \E n \in 0..MaxHF : hf_page = [i \in 1..n |-> <<"images.harborfreight.com", "coupon-deals", i>>]
    /\ hfqpdb_requests = <<>>
    /\ hf_requests = <<>>
    /\ failure_urls = <<>>
    /\ upload \in {{}, {StaleFile}}
    /\ hfqpdb_coupons = <<>>
    /\ gather_i = 0
    /\ hf_coupon_count = 0
    /\ process_counter = 0
    /\ processes = <<>>
    /\ similar_calls = {}
    /\ collect_i = 0
    /\ not_found = <<>>
    /\ summary = <<>>
    /\ pair = Idle
    /\ verdicts = <<>>

Init == Start(Responses)

\* Lines 93-98: one image link of the database page is submitted.
SubmitDB ==
    /\ pc = "scrape"
    /\ db_page # <<>>
    /\ hfqpdb_requests' = Append(hfqpdb_requests, Future(Head(db_page)))
    /\ db_page' = Tail(db_page)
    /\ UNCHANGED <<pc, served, hf_page, hf_requests, failure_urls, upload, hfqpdb_coupons,
                   gather_i, hf_coupon_count, process_counter, processes,
                   similar_calls, collect_i, not_found, summary, pair, verdicts>>

\* Lines 100-113: one image link of the site's coupon and promotion pages.
SubmitHF ==
    /\ pc = "scrape"
    /\ db_page = <<>>
    /\ hf_page # <<>>
    /\ hf_requests' = Append(hf_requests, Future(Head(hf_page)))
    /\ hf_page' = Tail(hf_page)
    /\ UNCHANGED <<pc, served, db_page, hfqpdb_requests, failure_urls, upload, hfqpdb_coupons,
                   gather_i, hf_coupon_count, process_counter, processes,
                   similar_calls, collect_i, not_found, summary, pair, verdicts>>

\* A pool thread runs dl_and_hash_coupon for a submitted request (lines 25-36).
Downloaded(request, response) ==
    [request EXCEPT !.done = TRUE, !.result = dl_and_hash_coupon(request.url, response)]

Failures(request, response) ==
    IF response = NoneBytes THEN Append(failure_urls, request.url) ELSE failure_urls

DownloadDB(i) ==
    /\ ~hfqpdb_requests[i].done
    /\ \E response \in served :
          /\ hfqpdb_requests' = [hfqpdb_requests EXCEPT ![i] = Downloaded(@, response)]
          /\ failure_urls' = Failures(hfqpdb_requests[i], response)
    /\ UNCHANGED <<pc, served, db_page, hf_page, hf_requests, upload, hfqpdb_coupons,
                   gather_i, hf_coupon_count, process_counter, processes,
                   similar_calls, collect_i, not_found, summary, pair, verdicts>>

DownloadHF(i) ==
    /\ ~hf_requests[i].done
    /\ \E response \in served :
          /\ hf_requests' = [hf_requests EXCEPT ![i] = Downloaded(@, response)]
          /\ failure_urls' = Failures(hf_requests[i], response)
    /\ UNCHANGED <<pc, served, db_page, hf_page, hfqpdb_requests, upload, hfqpdb_coupons,
                   gather_i, hf_coupon_count, process_counter, processes,
                   similar_calls, collect_i, not_found, summary, pair, verdicts>>

AllDone(futures) == \A i \in 1..Len(futures) : futures[i].done

\* Line 91: leaving the with block shuts the thread pool down and waits for
\* every submitted download.
ThreadPoolExit ==
    /\ pc = "scrape"
    /\ db_page = <<>>
    /\ hf_page = <<>>
    /\ AllDone(hfqpdb_requests)
    /\ AllDone(hf_requests)
    /\ pc' = "rmtree"
    /\ UNCHANGED <<served, db_page, hf_page, hfqpdb_requests, hf_requests, failure_urls, upload,
                   hfqpdb_coupons, gather_i, hf_coupon_count, process_counter, processes,
                   similar_calls, collect_i, not_found, summary, pair, verdicts>>

\* Lines 116-120.
DeleteOldFolder ==
    /\ pc = "rmtree"
    /\ upload' = {}
    /\ hfqpdb_coupons' = <<>>
    /\ gather_i' = 0
    /\ pc' = "gather"
    /\ UNCHANGED <<served, db_page, hf_page, hfqpdb_requests, hf_requests, failure_urls,
                   hf_coupon_count, process_counter, processes,
                   similar_calls, collect_i, not_found, summary, pair, verdicts>>

\* Mutant of GatherDB: the result is kept whether or not the download failed.
GatherDB_KeepsFailed ==
    /\ pc = "gather"
    /\ gather_i < Len(hfqpdb_requests)
    /\ hfqpdb_requests[gather_i + 1].done
    /\ hfqpdb_coupons' = Append(hfqpdb_coupons, hfqpdb_requests[gather_i + 1].result)
    /\ gather_i' = gather_i + 1
    /\ UNCHANGED <<pc, served, db_page, hf_page, hfqpdb_requests, hf_requests, failure_urls, upload,
                   hf_coupon_count, process_counter, processes,
                   similar_calls, collect_i, not_found, summary, pair, verdicts>>

\* Lines 121-123, one iteration: r.result() waits for the download.
GatherDB ==
    /\ pc = "gather"
    /\ gather_i < Len(hfqpdb_requests)
    /\ LET r == hfqpdb_requests[gather_i + 1]
       IN  /\ r.done
           /\ hfqpdb_coupons' = IF r.result.hash # NoneHash
                                THEN Append(hfqpdb_coupons, r.result)
                                ELSE hfqpdb_coupons
    /\ gather_i' = gather_i + 1
    /\ UNCHANGED <<pc, served, db_page, hf_page, hfqpdb_requests, hf_requests, failure_urls, upload,
                   hf_coupon_count, process_counter, processes,
                   similar_calls, collect_i, not_found, summary, pair, verdicts>>

\* Mutant of StartPolling: the candidates are handed out before the loop
\* over the database requests has ended.
StartPolling_BeforeGathered ==
    /\ pc = "gather"
    /\ hf_coupon_count' = Len(hf_requests)
    /\ process_counter' = 0
    /\ processes' = <<>>
    /\ pc' = "poll"
    /\ UNCHANGED <<served, db_page, hf_page, hfqpdb_requests, hf_requests, failure_urls, upload,
                   hfqpdb_coupons, gather_i,
                   similar_calls, collect_i, not_found, summary, pair, verdicts>>

\* Lines 126-130.
StartPolling ==
    /\ pc = "gather"
    /\ gather_i = Len(hfqpdb_requests)
    /\ hf_coupon_count' = Len(hf_requests)
    /\ process_counter' = 0
    /\ processes' = <<>>
    /\ pc' = "poll"
    /\ UNCHANGED <<served, db_page, hf_page, hfqpdb_requests, hf_requests, failure_urls, upload,
                   hfqpdb_coupons, gather_i,
                   similar_calls, collect_i, not_found, summary, pair, verdicts>>

Task(result, database) ==
    [coupon |-> result, database |-> database, done |-> FALSE,
     ret |-> NoneName, raised |-> FALSE]

\* Mutant of PollRequest: the front request is read but not popped when
\* its result is submitted.
PollRequest_NoPop ==
    /\ pc = "poll"
    /\ hf_requests # <<>>
    /\ IF Head(hf_requests).done
       THEN /\ hf_requests' = hf_requests
            /\ processes' = Append(processes, [coupon |-> Head(hf_requests).result,
                                               database |-> hfqpdb_coupons, done |-> FALSE,
                                               ret |-> NoneName, raised |-> FALSE])
            /\ process_counter' = process_counter + 1
       ELSE /\ hf_requests' = Append(Tail(hf_requests), Head(hf_requests))
            /\ UNCHANGED <<processes, process_counter>>
    /\ UNCHANGED <<pc, served, db_page, hf_page, hfqpdb_requests, failure_urls, upload,
                   hfqpdb_coupons, gather_i, hf_coupon_count,
                   similar_calls, collect_i, not_found, summary, pair, verdicts>>

\* Lines 131-141, one iteration: the front request is popped; its result is
\* submitted to the process pool, or, when result(0.001) times out, the
\* request goes back to the end of the list.
PollRequest ==
    /\ pc = "poll"
    /\ hf_requests # <<>>
    /\ LET request == Head(hf_requests)
       IN  IF request.done
           THEN /\ hf_requests' = Tail(hf_requests)
                /\ processes' = Append(processes, Task(request.result, hfqpdb_coupons))
                /\ process_counter' = process_counter + 1
           ELSE /\ hf_requests' = Append(Tail(hf_requests), request)
                /\ UNCHANGED <<processes, process_counter>>
    /\ UNCHANGED <<pc, served, db_page, hf_page, hfqpdb_requests, failure_urls, upload,
                   hfqpdb_coupons, gather_i, hf_coupon_count,
                   similar_calls, collect_i, not_found, summary, pair, verdicts>>

\* A pool process runs process_coupon on its task (lines 70-86); an
\* exception is kept in the task's future.
WriteFiles(files, written) ==
    {f \in files : \A g \in written : g.name # f.name} \cup written

Finish(i, out) ==
    /\ processes' = [processes EXCEPT ![i].done = TRUE,
                                      ![i].ret = out.ret,
                                      ![i].raised = out.raised]
    /\ upload' = WriteFiles(upload, out.written)
    /\ similar_calls' = similar_calls \cup {out.calls[k] : k \in 1..Len(out.calls)}

RunProcess(i) ==
    /\ ~processes[i].done
    /\ Finish(i, process_coupon(processes[i].coupon, processes[i].database))
    /\ UNCHANGED <<pc, served, db_page, hf_page, hfqpdb_requests, hf_requests, failure_urls,
                   hfqpdb_coupons, gather_i, hf_coupon_count, process_counter,
                   collect_i, not_found, summary, pair, verdicts>>

\* Line 130: leaving the with block waits for every task; line 143.
ProcessPoolExit ==
    /\ pc = "poll"
    /\ hf_requests = <<>>
    /\ AllDone(processes)
    /\ not_found' = <<>>
    /\ collect_i' = 0
    /\ pc' = "collect"
    /\ UNCHANGED <<served, db_page, hf_page, hfqpdb_requests, hf_requests, failure_urls, upload,
                   hfqpdb_coupons, gather_i, hf_coupon_count, process_counter, processes,
                   similar_calls, summary, pair, verdicts>>

\* Lines 144-147, one iteration: process.result() raises again what the
\* task raised, and nothing catches it.
CollectResult ==
    /\ pc = "collect"
    /\ collect_i < Len(processes)
    /\ LET process == processes[collect_i + 1]
       IN  IF process.raised
           THEN /\ pc' = "aborted"
                /\ UNCHANGED <<not_found, collect_i>>
           ELSE /\ not_found' = IF process.ret # NoneName
                                THEN Append(not_found, process.ret)
                                ELSE not_found
                /\ collect_i' = collect_i + 1
                /\ UNCHANGED pc
    /\ UNCHANGED <<served, db_page, hf_page, hfqpdb_requests, hf_requests, failure_urls, upload,
                   hfqpdb_coupons, gather_i, hf_coupon_count, process_counter, processes,
                   similar_calls, summary, pair, verdicts>>

\* Lines 149-168: the lists and the counts printed.
Report ==
    /\ pc = "collect"
    /\ collect_i = Len(processes)
    /\ summary' = <<[failed |-> failure_urls,
                     missing |-> not_found,
                     found |-> hf_coupon_count - Len(not_found),
                     total |-> hf_coupon_count,
                     db_count |-> Len(hfqpdb_coupons),
                     up_to_date |-> (Len(not_found) = 0)]>>
    /\ pc' = "done"
    /\ UNCHANGED <<served, db_page, hf_page, hfqpdb_requests, hf_requests, failure_urls, upload,
                   hfqpdb_coupons, gather_i, hf_coupon_count, process_counter, processes,
                   similar_calls, collect_i, not_found, pair, verdicts>>

MainThread ==
    \/ SubmitDB
    \/ SubmitHF
    \/ ThreadPoolExit
    \/ DeleteOldFolder
    \/ GatherDB
    \/ StartPolling
    \/ PollRequest
    \/ ProcessPoolExit
    \/ CollectResult
    \/ Report

ThreadPool ==
    \/ \E i \in 1..Len(hfqpdb_requests) : DownloadDB(i)
    \/ \E i \in 1..Len(hf_requests) : DownloadHF(i)

ProcessPool == \E i \in 1..Len(processes) : RunProcess(i)

Next == MainThread \/ ThreadPool \/ ProcessPool

Spec == Init /\ [][Next]_vars

\* FairSpec: the main thread runs on, and the thread pool brings every
\* download to an end.  (The progress of the process pool is not assumed.)
\* The polling loop does not look at the pictures, so the servers answer
\* with one picture, one buffer that does not decode, or an error.
FairInit == Start({ImgX, ImgBad, NoneBytes})

FairSpec == FairInit /\ [][Next]_vars /\ WF_vars(MainThread) /\ WF_vars(ThreadPool)

(***************************************************************************)
(* Vocabulary of the properties.                                           *)
(***************************************************************************)
Classifying == pc \in {"poll", "collect", "done", "aborted"}
Finished == pc = "done"

Tasks == 1..Len(processes)
References == 1..Len(hfqpdb_coupons)
Range(seq) == {seq[k] : k \in 1..Len(seq)}

\* The candidate of task i is reported missing (its name is in not_found).
ReportedMissing(i) == processes[i].coupon.name \in Range(not_found)

\* The approximate comparison in one orientation, where it is defined.
MatchesAsTemplate(templ, image) ==
    Fits(templ, image) /\ AnyAtLeastThreshold(matchTemplate(image, templ))

\* Some reference image is a duplicate of the candidate of task i.
MatchesSomeReference(i) ==
    \E k \in References :
        is_duplicate(processes[i].coupon, hfqpdb_coupons[k]).verdict = "True"

\* The results of the downloads that succeeded, in the order of the requests.
RECURSIVE Successful(_)
Successful(requests) ==
    IF requests = <<>> THEN <<>>
    ELSE IF Head(requests).result.hash # NoneHash
    THEN <<Head(requests).result>> \o Successful(Tail(requests))
    ELSE Successful(Tail(requests))

PairCompared == verdicts # <<>>
BothDecode == Decode(pair.cand) # NoImage /\ Decode(pair.ref) # NoImage

(***************************************************************************)
(* C1.  A candidate is reported missing only if, for every reference       *)
(* image, the fingerprints differ and the approximate comparison is false  *)
(* in every orientation that is geometrically valid.                       *)
(***************************************************************************)
C1_MissingOnlyIfNoMatch ==
    \A i \in Tasks :
        ReportedMissing(i) =>
            \A k \in References :
                /\ processes[i].coupon.hash # hfqpdb_coupons[k].hash
                /\ Decode(processes[i].coupon.image) # NoImage
                /\ Decode(hfqpdb_coupons[k].image) # NoImage
                /\ ~MatchesAsTemplate(Decode(processes[i].coupon.image),
                                      Decode(hfqpdb_coupons[k].image))
                /\ ~MatchesAsTemplate(Decode(hfqpdb_coupons[k].image),
                                      Decode(processes[i].coupon.image))

C1_Witness ==
    /\ Finished
    /\ Len(hfqpdb_coupons) = 2
    /\ \E i \in Tasks : ReportedMissing(i)
    /\ \E i \in Tasks : ~ReportedMissing(i) /\ processes[i].coupon.hash # NoneHash

(***************************************************************************)
(* C2.  A buffer that cannot be decoded makes that one comparison "not     *)
(* similar" and no error propagates: no task raises and the run is not     *)
(* aborted, so every other candidate is still classified and reported.     *)
(***************************************************************************)
C2_DecodeFailureContained ==
    /\ \A i \in Tasks : ~processes[i].raised
    /\ pc # "aborted"

(***************************************************************************)
(* C3.  Duplicate detection is symmetric: the verdict for (A, B) equals    *)
(* the verdict for (B, A).                                                 *)
(***************************************************************************)
C3_Symmetric ==
    PairCompared => verdicts[1].cr.verdict = verdicts[1].rc.verdict

C3_Witness ==
    /\ PairCompared
    /\ verdicts[1].cand.hash # verdicts[1].ref.hash
    /\ verdicts[1].cr.verdict = "True"
    /\ Len(verdicts[1].cr.attempts) = 2
    /\ Len(verdicts[1].rc.attempts) = 1

(***************************************************************************)
(* C4.  Identical raw bytes give the verdict true, without decoding: no    *)
(* call of coupons_are_similar is made, so it holds for buffers that do    *)
(* not decode; in particular is_duplicate(A, A) is true.                   *)
(***************************************************************************)
C4_ExactMatchShortCircuits ==
    (PairCompared /\ pair.cand = pair.ref) =>
        /\ verdicts[1].cr.verdict = "True"
        /\ verdicts[1].cr.called = <<>>
        /\ verdicts[1].cr.attempts = <<>>

C4_Witness ==
    /\ PairCompared
    /\ pair.cand = pair.ref
    /\ pair.cand \in Garbage
    /\ verdicts[1].cr.verdict = "True"

(***************************************************************************)
(* C5.  An entry whose download failed (fingerprint None) never enters     *)
(* classification: it is not in the reference set, coupons_are_similar is  *)
(* never called with its bytes, it is never written to the save directory  *)
(* and never reported missing.                                             *)
(***************************************************************************)
C5_FailedFetchExcluded ==
    /\ \A k \in References : hfqpdb_coupons[k].hash # NoneHash
    /\ \A c \in similar_calls : c.a # NoneBytes /\ c.b # NoneBytes
    /\ \A f \in upload : f.data # NoneBytes
    /\ \A i \in Tasks :
          processes[i].coupon.hash = NoneHash =>
              /\ ~ReportedMissing(i)
              /\ processes[i].ret = NoneName
              /\ \A f \in upload : f = StaleFile \/ f.name # processes[i].coupon.name

C5_Witness ==
    /\ Finished
    /\ \E k \in 1..Len(hfqpdb_requests) : hfqpdb_requests[k].result.hash = NoneHash
    /\ \E i \in Tasks : processes[i].coupon.hash = NoneHash
    /\ similar_calls # {}
    /\ upload # {}

(***************************************************************************)
(* C6.  The found count reported at the end equals the number of           *)
(* candidates for which some reference image yielded a duplicate verdict;  *)
(* a candidate that matched no reference image is never counted as found.  *)
(***************************************************************************)
C6_FoundCountIsMatches ==
    Finished =>
        summary[1].found = Cardinality({i \in Tasks : MatchesSomeReference(i)})

(***************************************************************************)
(* C7.  Empty inputs are valid.  With an empty reference set no task       *)
(* raises, the run is not aborted and every candidate that was fetched is  *)
(* reported missing; with no candidate the run is not aborted, the missing *)
(* list is empty and the found count is 0.                                 *)
(***************************************************************************)
C7_EmptyInputs ==
    /\ (Classifying /\ hfqpdb_coupons = <<>>) =>
          /\ pc # "aborted"
          /\ \A i \in Tasks :
                /\ ~processes[i].raised
                /\ (processes[i].done /\ processes[i].coupon.hash # NoneHash) =>
                       processes[i].ret = processes[i].coupon.name
                /\ (Finished /\ processes[i].coupon.hash # NoneHash) =>
                       processes[i].coupon.name \in Range(summary[1].missing)
    /\ (Classifying /\ hf_coupon_count = 0) =>
          /\ pc # "aborted"
          /\ not_found = <<>>
          /\ Finished => (summary[1].missing = <<>> /\ summary[1].found = 0)

C7_Witness ==
    /\ Finished
    /\ hfqpdb_coupons = <<>>
    /\ Len(hfqpdb_requests) > 0
    /\ Len(summary[1].missing) = 2

(***************************************************************************)
(* C8.  In coupons_are_similar the candidate is tried as template over the *)
(* reference first; the reversed orientation is attempted if and only if   *)
(* the first is geometrically invalid; when both are invalid the verdict   *)
(* is false and no error is raised.                                        *)
(***************************************************************************)
C8_OrientationRetry ==
    (PairCompared /\ BothDecode /\ verdicts[1].cr.called # <<>>) =>
        LET attempts == verdicts[1].cr.attempts
            cand == Decode(pair.cand)
            ref == Decode(pair.ref)
        IN  /\ Len(attempts) >= 1
            /\ attempts[1] = [image |-> ref, template |-> cand]
            /\ (Len(attempts) = 2) <=> ~Fits(cand, ref)
            /\ Len(attempts) = 2 => attempts[2] = [image |-> cand, template |-> ref]
            /\ (~Fits(cand, ref) /\ ~Fits(ref, cand)) => verdicts[1].cr.verdict = "False"
            /\ verdicts[1].cr.verdict \in {"True", "False"}

C8_Witness ==
    /\ PairCompared
    /\ BothDecode
    /\ ~Fits(Decode(pair.cand), Decode(pair.ref))
    /\ ~Fits(Decode(pair.ref), Decode(pair.cand))
    /\ Len(verdicts[1].cr.attempts) = 2
    /\ verdicts[1].cr.verdict = "False"

(***************************************************************************)
(* C9.  The reference set is complete before the first candidate is        *)
(* classified and is the same for every classification: once a task has    *)
(* been submitted, every database download has finished, the set holds     *)
(* every image that was fetched, and each task was given that set.         *)
(***************************************************************************)
C9_ReferenceSetComplete ==
    (Classifying \/ processes # <<>>) =>
        /\ AllDone(hfqpdb_requests)
        /\ hfqpdb_coupons = Successful(hfqpdb_requests)
        /\ \A i \in Tasks : processes[i].database = hfqpdb_coupons

C9_Witness ==
    /\ Len(processes) = 2
    /\ Len(hfqpdb_requests) = 2
    /\ Len(hfqpdb_coupons) = 1
    /\ hfqpdb_requests[1].result.hash = NoneHash

\* The names of the submitted tasks, then of the pending requests.
PollingNames ==
    [k \in 1..(Len(processes) + Len(hf_requests)) |->
        IF k <= Len(processes) THEN processes[k].coupon.name
        ELSE ImageName(hf_requests[k - Len(processes)].url)]

ExactlyOnce ==
    Classifying =>
        /\ Len(processes) + Len(hf_requests) = hf_coupon_count
        /\ process_counter = Len(processes)
        /\ \A n \in 1..hf_coupon_count :
              Cardinality({k \in DOMAIN PollingNames : PollingNames[k] = n}) = 1

\* The while loop of line 131 has ended: nothing is pending.
LoopOver == Classifying /\ hf_requests = <<>>
PastLoop == pc \in {"collect", "done", "aborted"}

(***************************************************************************)
(* C10.  In the polling loop every candidate request is submitted to       *)
(* process_coupon exactly once: the submitted tasks and the pending        *)
(* requests are, at every moment, the candidate requests, each once; and   *)
(* the loop ends, with the pending list empty and as many tasks as there   *)
(* were requests.                                                          *)
(***************************************************************************)
C10_PollingLoop ==
    /\ [](ExactlyOnce /\ (PastLoop => LoopOver))
    /\ <>(LoopOver /\ Len(processes) = hf_coupon_count)

C10_Witness ==
    /\ LoopOver
    /\ hf_requests = <<>>
    /\ Len(processes) = 2
    /\ hf_coupon_count = 2

====
